---- MODULE Spec2Model ----
(***************************************************************************)
(* Sidecar process supervisor of src-tauri/src/main.rs: the handle store   *)
(* (Arc<Mutex<Option<CommandChild>>>), spawn_and_monitor_sidecar, the      *)
(* start_sidecar and shutdown_sidecar commands, the setup hook, the        *)
(* RunEvent::ExitRequested handler and the output relay task.              *)
(*                                                                         *)
(* Every step of a handler is one action; a MutexGuard's scope is the      *)
(* interval in which lock names the thread.                                *)
(***************************************************************************)
EXTENDS Integers, Sequences, FiniteSets, TLC

\* ---------------------------------------------------------------- bounds
MaxCalls == 2       \* command invocations the frontend makes
MaxSpawns == 2      \* worker processes the OS ever creates
MaxLines == 3       \* lines one worker writes (both streams together)

Main == "main"
Cmds == {"c1", "c2"}
Threads == Cmds \cup {Main}
Pids == 1..MaxSpawns
None == 0           \* Option::None of the store; Some(child) is the pid

VARIABLES
    child_process,  \* the managed Option<CommandChild>
    lock,           \* holder of the Mutex, or "free"
    pc,             \* position of each thread inside its handler
    op,             \* handler each thread is running ("none" when idle)
    solo,           \* TRUE while no other handler overlapped this call
    child,          \* the local `child` / `process` a thread holds
    calls,          \* commands invoked so far
    stage,          \* main thread: "setup", "starting", "run", "exit" ("aborted")
    proc,           \* OS state of each worker process
    kills,          \* kill requests each process has received
    rx,             \* the CommandEvent receiver of each spawn
    open,           \* TRUE while the sender side of rx is alive
    relay,          \* the relay task of each spawn
    sent,           \* lines each worker has written, per stream
    published,      \* events emitted on the two channels
    failed,         \* emit calls of each relay that returned Err
    saved,          \* save_window_state calls made
    stopped,        \* TRUE once shutdown_sidecar or the exit hook was invoked
    env,            \* build mode, OS and files of the host
    resolved,       \* what get_sidecar_path last returned (empty before a call)
    hist            \* the last three completed calls

vars == <<child_process, lock, pc, op, solo, child, calls, stage, proc, kills,
          rx, open, relay, sent, published, failed, saved, stopped, env, resolved,
          hist>>

supervisor == <<child_process, lock, pc, op, solo, child, calls, stage, hist, saved, stopped>>
workers == <<proc, kills, rx, open, relay, sent, published, failed>>
host == <<env, resolved>>

\* ------------------------------------------------------------- helpers
Streams == {"Stdout", "Stderr"}

\* Option::is_some on the guarded value
is_some(s) == s # None

\* lines 83-87: the early return of spawn_and_monitor_sidecar
already_running_unchecked(s) == FALSE
already_running(s) == is_some(s)

\* Option::take: the value left in the slot
take_keeps(s) == s
take(s) == None

\* the slot after `*state.lock().unwrap() = Some(child)`
install(s, c) == c

\* the slot after a start that returned through `?` before the install
failed_start_dirty(s) == MaxSpawns
failed_start(s) == s

Live == {p \in Pids : proc[p] = "running"}
Spawned == {p \in Pids : proc[p] # "none"}
Active(t) == op[t] # "none"
Others(t) == {u \in Threads : u # t /\ Active(u)}

\* the record of a completed call; calls that overlapped another handler are
\* remembered only as having happened
\* remembered only by their result, the latest one standing for the run
\*   kill: "no", "ok" (request accepted), "refused"
\*   spawn: "no" (already running), "failed", "ok"
\*   store: the slot when the call returned
\*   by: "hook" (setup or exit request) or "command"
Entry(t, res, k, s, st) ==
    IF solo[t] THEN [op |-> op[t], res |-> res, kill |-> k, spawn |-> s, store |-> st,
                     by |-> IF t = Main THEN "hook" ELSE "command"]
               ELSE [op |-> "overlapped", res |-> res]

Remember(h, e) ==
    LET g == IF e.op = "overlapped" /\ h # <<>> /\ h[Len(h)].op = "overlapped"
                THEN [h EXCEPT ![Len(h)] = e] ELSE Append(h, e)
    IN IF Len(g) > 3 THEN SubSeq(g, Len(g) - 2, Len(g)) ELSE g

\* a handler begins on thread t: every call it overlaps stops being solo
Begin(t, o, at) ==
    /\ ~Active(t)
    /\ op' = [op EXCEPT ![t] = o]
    /\ pc' = [pc EXCEPT ![t] = at]
    /\ solo' = [u \in Threads |-> IF u = t THEN Others(t) = {} ELSE FALSE]

\* a handler returns res on thread t
Return(t, res, k, s) ==
    /\ op' = [op EXCEPT ![t] = "none"]
    /\ pc' = [pc EXCEPT ![t] = "idle"]
    /\ hist' = Remember(hist, Entry(t, res, k, s, child_process'))
    /\ UNCHANGED solo

Goto(t, at) ==
    /\ pc' = [pc EXCEPT ![t] = at]
    /\ UNCHANGED <<op, solo, hist>>

\* ---------------------------------------------------------------- Init
InitBase ==
    /\ child_process = None
    /\ lock = "free"
    /\ pc = [t \in Threads |-> "idle"]
    /\ op = [t \in Threads |-> "none"]
    /\ solo = [t \in Threads |-> FALSE]
    /\ child = [t \in Threads |-> None]
    /\ calls = 0
    /\ stage = "setup"
    /\ proc = [p \in Pids |-> "none"]
    /\ kills = [p \in Pids |-> 0]
    /\ rx = [p \in Pids |-> <<>>]
    /\ open = [p \in Pids |-> FALSE]
    /\ relay = [p \in Pids |-> "none"]
    /\ sent = [p \in Pids |-> [s \in Streams |-> <<>>]]
    /\ published = [s \in Streams |-> <<>>]
    /\ failed = [p \in Pids |-> 0]
    /\ saved = 0
    /\ stopped = FALSE
    /\ hist = <<>>
    /\ resolved = <<>>

\* a release build on Linux with the binary in the resource directory; no
\* handler of the supervisor reads env
PackagedEnv ==
    [debug |-> FALSE, canon |-> TRUE, resdir |-> TRUE, resbin |-> TRUE,
     os |-> "linux", exe |-> "ok", exebin |-> TRUE]

Init == InitBase /\ env = PackagedEnv

\* lines 205-216: the setup hook drops the result with .ok() and goes on
setup_done_propagates(res) == IF res = "Ok" THEN "run" ELSE "aborted"
setup_done(res) == "run"

\* the main thread's stage once thread t has taken a step of start
StageAfter(t) ==
    IF t = Main /\ stage = "starting" /\ pc'[t] = "idle"
       THEN setup_done(hist'[Len(hist')].res)
       ELSE stage

\* ------------------------------------------------------- entry points
\* setup hook: app.manage(None) has run, spawn_and_monitor_sidecar is called
setup(t) ==
    /\ t = Main /\ stage = "setup"
    /\ Begin(t, "start", "check")
    /\ stage' = "starting"
    /\ UNCHANGED <<child_process, lock, child, calls, hist, saved, stopped>>
    /\ UNCHANGED workers
    /\ UNCHANGED host

start_sidecar(t) ==
    /\ t \in Cmds /\ calls < MaxCalls
    /\ Begin(t, "start", "check")
    /\ calls' = calls + 1
    /\ UNCHANGED <<child_process, lock, child, stage, hist, saved, stopped>>
    /\ UNCHANGED workers
    /\ UNCHANGED host

shutdown_sidecar(t) ==
    /\ t \in Cmds /\ calls < MaxCalls
    /\ Begin(t, "shutdown", "take")
    /\ calls' = calls + 1
    /\ stopped' = TRUE
    /\ UNCHANGED <<child_process, lock, child, stage, hist, saved>>
    /\ UNCHANGED workers
    /\ UNCHANGED host

ExitRequested(t) ==
    /\ t = Main /\ stage = "run"
    /\ Begin(t, "exit", "save")
    /\ stage' = "exit"
    /\ stopped' = TRUE
    /\ UNCHANGED <<child_process, lock, child, calls, hist, saved>>
    /\ UNCHANGED workers
    /\ UNCHANGED host

\* ------------------------------------------- spawn_and_monitor_sidecar
\* lines 81-88: lock, test is_some, guard dropped at the end of the block
StartCheck(t) ==
    /\ pc[t] = "check" /\ lock = "free"
    /\ child_process' = child_process
    /\ IF already_running(child_process)
          THEN Return(t, "Ok", "no", "no")
          ELSE Goto(t, "sidecar")
    /\ stage' = StageAfter(t)
    /\ UNCHANGED <<lock, child, calls, saved, stopped>>
    /\ UNCHANGED workers
    /\ UNCHANGED host

\* lines 90-94: shell().sidecar("chicken-core") may fail, `?` returns Err
StartSidecar(t) ==
    /\ pc[t] = "sidecar"
    /\ \E ok \in BOOLEAN :
          IF ok THEN /\ child_process' = child_process
                     /\ Goto(t, "spawn")
                ELSE /\ child_process' = failed_start(child_process)
                     /\ Return(t, "Err", "no", "failed")
    /\ stage' = StageAfter(t)
    /\ UNCHANGED <<lock, child, calls, saved, stopped>>
    /\ UNCHANGED workers
    /\ UNCHANGED host

\* what the OS does on a successful spawn: a new process and its event channel
Spawn(t, p) ==
    /\ proc[p] = "none" /\ \A q \in Pids : q < p => proc[q] # "none"
    /\ proc' = [proc EXCEPT ![p] = "running"]
    /\ open' = [open EXCEPT ![p] = TRUE]
    /\ child' = [child EXCEPT ![t] = p]

\* line 95: sidecar_command.spawn() may fail, `?` returns Err
StartSpawn(t) ==
    /\ pc[t] = "spawn"
    /\ \/ /\ \E p \in Pids : Spawn(t, p)
          /\ child_process' = child_process
          /\ Goto(t, "install")
       \/ /\ child_process' = failed_start(child_process)
          /\ Return(t, "Err", "no", "failed")
          /\ UNCHANGED <<proc, open, child>>
    /\ stage' = StageAfter(t)
    /\ UNCHANGED <<lock, calls, saved, stopped, kills, rx, relay, sent, published, failed>>
    /\ UNCHANGED host

\* lines 99-101: lock, overwrite the slot with Some(child), unlock
StartInstall(t) ==
    /\ pc[t] = "install" /\ lock = "free"
    /\ child_process' = install(child_process, child[t])
    /\ Goto(t, "relay")
    /\ stage' = StageAfter(t)
    /\ UNCHANGED <<lock, child, calls, saved, stopped>>
    /\ UNCHANGED workers
    /\ UNCHANGED host

\* lines 107-131: the relay task is spawned on rx, Ok(()) is returned
StartRelay(t) ==
    /\ pc[t] = "relay"
    /\ relay' = [relay EXCEPT ![child[t]] = "running"]
    /\ child' = [child EXCEPT ![t] = None]
    /\ child_process' = child_process
    /\ Return(t, "Ok", "no", "ok")
    /\ stage' = StageAfter(t)
    /\ UNCHANGED <<lock, calls, saved, stopped, proc, kills, rx, open, sent, published, failed>>
    /\ UNCHANGED host

\* ------------------------------------------------------ process.kill()
\* the kill request reaches process p; accepted, the process ends, the
\* monitor thread sends Terminated and drops the sender
Kill(p, ok) ==
    /\ kills' = [kills EXCEPT ![p] = @ + 1]
    /\ IF ok /\ proc[p] = "running"
          THEN /\ proc' = [proc EXCEPT ![p] = "exited"]
               /\ rx' = [rx EXCEPT ![p] = Append(@, [type |-> "Terminated", line |-> <<>>])]
               /\ open' = [open EXCEPT ![p] = FALSE]
          ELSE UNCHANGED <<proc, rx, open>>

\* the slot after process.kill() returned: the taken handle is not put back
after_kill_putback(s, c, ok) == c
after_kill_reinserts(s, c, ok) == IF ok THEN s ELSE c
after_kill(s, c, ok) == s

\* lines 146-155: the value shutdown_sidecar returns for the kill's outcome
kill_result(ok) == IF ok THEN "Ok" ELSE "KillFailed"

\* ---------------------------------------------------- shutdown_sidecar
\* lines 139-144 and 156-159: lock, take(); an empty slot returns Err
ShutdownTake(t) ==
    /\ pc[t] = "take" /\ op[t] = "shutdown" /\ lock = "free"
    /\ IF is_some(child_process)
          THEN /\ child' = [child EXCEPT ![t] = child_process]
               /\ child_process' = take(child_process)
               /\ lock' = t
               /\ Goto(t, "kill")
          ELSE /\ child_process' = child_process
               /\ Return(t, "NotRunning", "no", "no")
               /\ UNCHANGED <<child, lock>>
    /\ UNCHANGED <<calls, stage, saved, stopped>>
    /\ UNCHANGED workers
    /\ UNCHANGED host

\* lines 146-155: process.kill() with the guard still alive, then return
ShutdownKill(t) ==
    /\ pc[t] = "kill" /\ op[t] = "shutdown"
    /\ \E ok \in BOOLEAN :
          /\ Kill(child[t], ok)
          /\ child_process' = after_kill(child_process, child[t], ok)
          /\ Return(t, kill_result(ok), IF ok THEN "ok" ELSE "refused", "no")
    /\ lock' = "free"
    /\ child' = [child EXCEPT ![t] = None]
    /\ UNCHANGED <<calls, stage, saved, stopped, relay, sent, published, failed>>
    /\ UNCHANGED host

\* --------------------------------------------- RunEvent::ExitRequested
\* line 232: the calls of save_window_state made so far, after one more
save_window_state_skipped(n) == n
save_window_state(n) == n + 1

\* lines 231-234: save_window_state, a failure is only logged
ExitSave(t) ==
    /\ pc[t] = "save" /\ op[t] = "exit"
    /\ saved' = save_window_state(saved)
    /\ Goto(t, "take")
    /\ UNCHANGED <<child_process, lock, child, calls, stage, stopped>>
    /\ UNCHANGED workers
    /\ UNCHANGED host

\* lines 237-239 and 248-250: lock, take()
ExitTake(t) ==
    /\ pc[t] = "take" /\ op[t] = "exit" /\ lock = "free"
    /\ IF is_some(child_process)
          THEN /\ child' = [child EXCEPT ![t] = child_process]
               /\ child_process' = take(child_process)
               /\ lock' = t
               /\ Goto(t, "kill")
          ELSE /\ child_process' = child_process
               /\ Return(t, "unit", "no", "no")
               /\ UNCHANGED <<child, lock>>
    /\ UNCHANGED <<calls, stage, saved, stopped>>
    /\ UNCHANGED workers
    /\ UNCHANGED host

\* lines 240-247: process.kill() with the guard still alive, result logged
ExitKill(t) ==
    /\ pc[t] = "kill" /\ op[t] = "exit"
    /\ \E ok \in BOOLEAN :
          /\ Kill(child[t], ok)
          /\ child_process' = after_kill(child_process, child[t], ok)
          /\ Return(t, "unit", IF ok THEN "ok" ELSE "refused", "no")
    /\ lock' = "free"
    /\ child' = [child EXCEPT ![t] = None]
    /\ UNCHANGED <<calls, stage, saved, stopped, relay, sent, published, failed>>
    /\ UNCHANGED host

\* --------------------------------------------------- the worker process
Lines(p) == Len(sent[p]["Stdout"]) + Len(sent[p]["Stderr"])

\* the k-th line of a stream: one ASCII byte, then 0xFF when malformed
LineBytes(k, bad) == IF bad THEN <<48 + k, 255>> ELSE <<48 + k>>

\* the worker writes one line on stream s; the plugin queues a CommandEvent
WorkerWrite(p, s, bad) ==
    /\ proc[p] = "running" /\ Lines(p) < MaxLines
    /\ LET b == LineBytes(Len(sent[p][s]) + 1, bad) IN
          /\ sent' = [sent EXCEPT ![p][s] = Append(@, b)]
          /\ rx' = [rx EXCEPT ![p] = Append(@, [type |-> s, line |-> b])]
    /\ UNCHANGED <<proc, kills, open, relay, published, failed>>
    /\ UNCHANGED supervisor
    /\ UNCHANGED host

\* the worker ends by itself: Terminated is queued and the sender dropped
WorkerExit(p) ==
    /\ proc[p] = "running"
    /\ proc' = [proc EXCEPT ![p] = "exited"]
    /\ rx' = [rx EXCEPT ![p] = Append(@, [type |-> "Terminated", line |-> <<>>])]
    /\ open' = [open EXCEPT ![p] = FALSE]
    /\ UNCHANGED <<kills, relay, sent, published, failed>>
    /\ UNCHANGED supervisor
    /\ UNCHANGED host

\* ------------------------------------------------------- the relay task
\* String::from_utf8_lossy on bytes that are ASCII or 0xFF
from_utf8_lossy(b) == [i \in 1..Len(b) |-> IF b[i] < 128 THEN b[i] ELSE 65533]

\* the relay after emit(..).expect(..): Err panics the task
after_emit(ok) == IF ok THEN "running" ELSE "panicked"

\* line 108: rx.recv() on an empty queue returns None once the sender is gone
recv_none_never(o) == FALSE
recv_none(o) == ~o

\* lines 108-128: one turn of `while let Some(event) = rx.recv().await`
RelayStep(p) ==
    /\ relay[p] = "running"
    /\ IF rx[p] = <<>>
          THEN /\ recv_none(open[p])
               /\ relay' = [relay EXCEPT ![p] = "done"]
               /\ UNCHANGED <<rx, published, failed>>
          ELSE LET e == Head(rx[p]) IN
               /\ rx' = [rx EXCEPT ![p] = Tail(@)]
               /\ IF e.type \in Streams
                     THEN \E ok \in BOOLEAN :
                            /\ relay' = [relay EXCEPT ![p] = after_emit(ok)]
                            /\ published' =
                                 IF ok THEN [published EXCEPT ![e.type] =
                                              Append(@, [pid |-> p, text |-> from_utf8_lossy(e.line)])]
                                       ELSE published
                            /\ failed' = IF ok THEN failed ELSE [failed EXCEPT ![p] = @ + 1]
                     ELSE UNCHANGED <<relay, published, failed>>
    /\ UNCHANGED <<proc, kills, open, sent>>
    /\ UNCHANGED supervisor
    /\ UNCHANGED host

\* ----------------------------------------------------- get_sidecar_path
\* the hosts the resolver can run on
\*   debug: cfg!(debug_assertions); canon: src/main.py canonicalizes
\*   resdir: resource_dir() is Ok; resbin: the resource candidate exists
\*   exe: current_exe() is "ok", an "err", or a path with no parent
\*   exebin: the file beside the executable exists
Envs ==
    [debug : BOOLEAN, canon : BOOLEAN, resdir : BOOLEAN, resbin : BOOLEAN,
     os : {"windows", "linux", "macos"}, exe : {"ok", "err", "noparent"},
     exebin : BOOLEAN]

\* lines 47-50 and 68-71: the binary name for env::consts::OS
bin(os) == IF os = "windows" THEN "chicken-core.exe" ELSE "chicken-core"

Ok(dir, file) == [ok |-> TRUE, dir |-> dir, file |-> file, err |-> ""]
Err(msg) == [ok |-> FALSE, dir |-> "", file |-> "", err |-> msg]

\* lines 30-76 with the `.exists()` test of line 52 left out
get_sidecar_path_unchecked(e) ==
    IF e.debug
       THEN IF e.canon THEN Ok("src", "main.py")
                       ELSE Err("Failed to resolve dev sidecar path")
       ELSE IF e.resdir
               THEN Ok("resource_dir", bin(e.os))
               ELSE IF e.exe = "err" THEN Err("Failed to get executable path")
                    ELSE IF e.exe = "noparent" THEN Err("Failed to get parent directory")
                    ELSE Ok("exe_dir", bin(e.os))

\* lines 30-76: the value get_sidecar_path returns on host e
get_sidecar_path(e) ==
    IF e.debug
       THEN IF e.canon THEN Ok("src", "main.py")
                       ELSE Err("Failed to resolve dev sidecar path")
       ELSE IF e.resdir /\ e.resbin
               THEN Ok("resource_dir", bin(e.os))
               ELSE IF e.exe = "err" THEN Err("Failed to get executable path")
                    ELSE IF e.exe = "noparent" THEN Err("Failed to get parent directory")
                    ELSE Ok("exe_dir", bin(e.os))

\* the get_sidecar_path command is invoked
InvokeGetSidecarPath ==
    /\ resolved' = <<get_sidecar_path(env)>>
    /\ UNCHANGED env
    /\ UNCHANGED supervisor
    /\ UNCHANGED workers

\* ----------------------------------------------------------------- Next
\* the handlers, run by the threads of T
Supervisor(T) ==
    \/ setup(Main)
    \/ ExitRequested(Main)
    \/ \E t \in T \cap Cmds : start_sidecar(t)
    \/ \E t \in T \cap Cmds : shutdown_sidecar(t)
    \/ \E t \in T : StartCheck(t)
    \/ \E t \in T : StartSidecar(t)
    \/ \E t \in T : StartSpawn(t)
    \/ \E t \in T : StartInstall(t)
    \/ \E t \in T : StartRelay(t)
    \/ \E t \in T \cap Cmds : ShutdownTake(t)
    \/ \E t \in T \cap Cmds : ShutdownKill(t)
    \/ ExitSave(Main)
    \/ ExitTake(Main)
    \/ ExitKill(Main)

\* the supervisor with every thread, and workers that end but write nothing
Next ==
    \/ Supervisor(Threads)
    \/ \E p \in Pids : WorkerExit(p)
    \/ \E p \in Pids : RelayStep(p)

Spec == Init /\ [][Next]_vars

\* the relay: the worker of the setup hook writes lines until it ends by
\* itself or the exit hook kills it
RelayNext ==
    \/ setup(Main)
    \/ StartCheck(Main)
    \/ StartSidecar(Main)
    \/ StartSpawn(Main)
    \/ StartInstall(Main)
    \/ StartRelay(Main)
    \/ ExitRequested(Main)
    \/ ExitSave(Main)
    \/ ExitTake(Main)
    \/ ExitKill(Main)
    \/ \E p \in Pids, s \in Streams, bad \in BOOLEAN : WorkerWrite(p, s, bad)
    \/ \E p \in Pids : WorkerExit(p)
    \/ \E p \in Pids : RelayStep(p)

RelaySpec == Init /\ [][RelayNext]_vars

\* the async runtime keeps polling a relay whose recv() is ready, and the
\* thread of the setup hook runs on to the end of spawn_and_monitor_sidecar
FairRelaySpec ==
    /\ RelaySpec
    /\ \A p \in Pids : WF_vars(RelayStep(p))
    /\ WF_vars(StartInstall(Main))
    /\ WF_vars(StartRelay(Main))

\* the resolver on every host, beside the start of the setup hook
ResolverInit == InitBase /\ env \in Envs

ResolverNext ==
    \/ InvokeGetSidecarPath
    \/ setup(Main)
    \/ StartCheck(Main)
    \/ StartSidecar(Main)
    \/ StartSpawn(Main)
    \/ StartInstall(Main)
    \/ StartRelay(Main)

ResolverSpec == ResolverInit /\ [][ResolverNext]_vars

\* ======================================================== properties
Last(h) == h[Len(h)]
Solo(e) == e.op # "overlapped"
AtKill == {t \in Threads : pc[t] = "kill"}

\* C1: concurrent start calls from an empty Store with no intervening
\* shutdown spawn the worker exactly once, and two workers are never live
\* at the same time.
C1_SingleSpawn ==
    ~stopped => /\ Cardinality(Spawned) <= 1
                /\ Cardinality(Live) <= 1

\* C2: a start that finds a handle in the Store returns success and changes
\* nothing: no process is spawned, the Store keeps the same handle and no
\* relay task is launched.
C2_StartIdempotent ==
    [][\A t \in Threads :
          (pc[t] = "check" /\ pc'[t] # "check" /\ child_process # None)
          => /\ pc'[t] = "idle"
             /\ Last(hist').res = "Ok"
             /\ child_process' = child_process
             /\ proc' = proc
             /\ relay' = relay
             /\ rx' = rx]_vars

C2_Witness ==
    /\ hist # <<>>
    /\ Last(hist).op = "start" /\ Last(hist).spawn = "no" /\ Last(hist).res = "Ok"
    /\ Last(hist).store # None
    /\ Cardinality(Spawned) = 1

C4_FailedStartClean ==
    \A i \in 1..Len(hist) :
       (hist[i].op = "start" /\ hist[i].spawn = "failed")
       => /\ hist[i].res = "Err"
          /\ hist[i].store = None
          /\ (i < Len(hist) /\ hist[i+1].op = "start") => hist[i+1].spawn # "no"

C4_Witness ==
    /\ Len(hist) >= 2
    /\ hist[1].op = "start" /\ hist[1].res = "Err"
    /\ hist[2].op = "start" /\ hist[2].res = "Ok" /\ hist[2].spawn = "ok"

\* C5: when the OS refuses the kill request, shutdown returns the
\* kill-failed error, the handle is not put back (the Store is empty), a
\* following shutdown returns not-running and a following start spawns.
C5_KillRefused ==
    \A i \in 1..Len(hist) :
       (hist[i].op = "shutdown" /\ hist[i].kill = "refused")
       => /\ hist[i].res = "KillFailed"
          /\ hist[i].store = None
          /\ (i < Len(hist) /\ hist[i+1].op = "shutdown")
                => hist[i+1].res = "NotRunning"
          /\ (i < Len(hist) /\ hist[i+1].op = "start")
                => hist[i+1].spawn # "no"

C5_Witness ==
    /\ Len(hist) >= 2
    /\ \E i \in 1..(Len(hist) - 1) :
          /\ hist[i].op = "shutdown" /\ hist[i].res = "KillFailed"
          /\ hist[i+1].op = "start" /\ hist[i+1].spawn = "ok"
          /\ Cardinality(Live) = 2

\* C6: with shutdown_sidecar and the exit hook running concurrently, one of
\* them takes the handle and issues the kill and the other finds the Store
\* empty: no handle receives more than one termination request.
C6_KillOnce ==
    /\ \A p \in Pids : kills[p] + Cardinality({t \in AtKill : child[t] = p}) <= 1
    /\ \A t \in AtKill : child[t] # None /\ child_process # child[t]
    /\ Cardinality(AtKill) <= 1

C6_Witness ==
    /\ stage = "exit" /\ ~Active(Main)
    /\ calls = 1 /\ \A t \in Cmds : ~Active(t)
    /\ hist # <<>> /\ Last(hist) = [op |-> "overlapped", res |-> "NotRunning"]
    /\ kills[1] = 1

\* C7: in start the emptiness check and the install are one critical
\* section: between a start's check and its install no other start or
\* shutdown reads or writes the Store.
C7_CheckThenInstallAtomic ==
    [][\A t, u \in Threads :
          (/\ t # u
           /\ pc[t] \in {"sidecar", "spawn", "install"}
           /\ pc[u] \in {"check", "install", "take"})
          => pc'[u] = pc[u]]_vars

\* C8: the Store's mutex is free whenever a spawn or a kill system call is
\* in progress, in start, in shutdown and in the exit hook.
C8_LockFreeAcrossSyscalls ==
    \A t \in Threads : pc[t] \in {"spawn", "kill"} => lock = "free"

\* the events of worker p on the channel of stream s, in publication order
PubText(p, s) ==
    LET q == SelectSeq(published[s], LAMBDA e : e.pid = p)
    IN [i \in 1..Len(q) |-> q[i].text]

\* the lines worker p wrote on stream s, decoded
SentText(p, s) == [i \in 1..Len(sent[p][s]) |-> from_utf8_lossy(sent[p][s][i])]

\* C9: for a worker that wrote N lines on standard-output and M on
\* standard-error, once it has ended and its relay has stopped the relay has
\* published exactly those N and M lines, each stream in the order written.
C9_LineFidelity ==
    \A p \in Pids :
       (proc[p] = "exited" /\ relay[p] \in {"done", "panicked"})
       => \A s \in Streams : PubText(p, s) = SentText(p, s)

\* C10: a publish that fails does not stop the relay: it is still running,
\* or it ended because the channel was drained and closed.
C10_EmitFailureNotFatal ==
    \A p \in Pids :
       failed[p] > 0
       => \/ relay[p] = "running"
          \/ relay[p] = "done" /\ rx[p] = <<>> /\ ~open[p]

\* the lines of worker p on stream s that hold an invalid byte
Malformed(p, s) ==
    {i \in 1..Len(sent[p][s]) : \E j \in 1..Len(sent[p][s][i]) : sent[p][s][i][j] >= 128}

\* C11: a line holding an invalid byte sequence yields exactly one event,
\* with the bytes replaced, on the channel of its stream, and every later
\* line of the worker is published too: once the worker has ended and its
\* relay has stopped, nothing written from that line on is missing.
C11_MalformedLinePublished ==
    \A p \in Pids : \A s \in Streams :
       (proc[p] = "exited" /\ relay[p] \in {"done", "panicked"} /\ Malformed(p, s) # {})
       => /\ \A i \in Malformed(p, s) :
                Cardinality({k \in 1..Len(PubText(p, s)) :
                                PubText(p, s)[k] = from_utf8_lossy(sent[p][s][i])}) = 1
          /\ \A r \in Streams : Len(PubText(p, r)) = Len(sent[p][r])

C13_KillBeforeSave ==
    (op[Main] = "exit" /\ pc[Main] \in {"take", "kill"}) => saved = 0

\* C13 amended: the exit hook calls save_window_state first and only then
\* takes the handle and requests termination; the call is made on every
\* exit request, also when no worker is running or the kill is refused.
C13_SaveBeforeKill ==
    /\ stage # "exit" => saved = 0
    /\ (op[Main] = "exit" /\ pc[Main] \in {"take", "kill"}) => saved = 1
    /\ (stage = "exit" /\ ~Active(Main)) => saved = 1

\* the exit hook has returned after a refused kill
C13_Witness ==
    /\ stage = "exit" /\ ~Active(Main) /\ saved = 1
    /\ hist # <<>> /\ Last(hist).op = "exit" /\ Last(hist).kill = "refused"

\* C14: once the worker has exited (its streams are closed) the relay of
\* that spawn eventually terminates, and a relay that has terminated is
\* never started again.
C14_RelayTerminates ==
    /\ \A p \in Pids : (proc[p] = "exited") ~> (relay[p] \in {"done", "panicked"})
    /\ [][\A p \in Pids : relay[p] \in {"done", "panicked"} => relay'[p] = relay[p]]_vars

\* the worker wrote a line and ended, the relay drained the channel and ended
C14_Witness ==
    /\ proc[1] = "exited" /\ relay[1] = "done" /\ rx[1] = <<>>
    /\ Lines(1) > 0

\* C15: a start that fails in the setup hook does not abort startup: the
\* hook completes, the Store is left empty and a later start_sidecar
\* attempts a spawn.
C15_SetupSurvivesFailedStart ==
    /\ stage # "aborted"
    /\ stage = "starting" => Active(Main)
    /\ \A i \in 1..Len(hist) :
          (hist[i].op = "start" /\ hist[i].by = "hook" /\ hist[i].res = "Err")
          => /\ stage \in {"run", "exit"}
             /\ hist[i].store = None
             /\ (i < Len(hist) /\ hist[i+1].op = "start") => hist[i+1].spawn # "no"

\* the start of the setup hook failed, the application runs, and a
\* start_sidecar command has since spawned the worker
C15_Witness ==
    /\ Len(hist) = 2 /\ stage = "run"
    /\ hist[1].op = "start" /\ hist[1].by = "hook" /\ hist[1].res = "Err"
    /\ hist[2].op = "start" /\ hist[2].by = "command" /\ hist[2].spawn = "ok"
    /\ child_process = 1

\* C17: whenever the Store holds a handle, the worker it refers to is still
\* running, so a start that finds no worker running does not return
\* "already running".
C17_NoStaleHandle ==
    /\ child_process # None => proc[child_process] = "running"
    /\ \A t \in Threads :
          (pc[t] = "check" /\ lock = "free" /\ Live = {})
          => ~already_running(child_process)

\* no handler is in progress
Quiet == \A t \in Threads : ~Active(t)

\* C18: no worker is orphaned: with no handler in progress, every spawned
\* worker that has not been sent a kill request is the one in the Store,
\* and once the exit-request hook has run by itself every worker ever
\* spawned has been sent a kill request.
C18_NoOrphan ==
    /\ Quiet => \A p \in Spawned : kills[p] = 0 => child_process = p
    /\ (Quiet /\ hist # <<>> /\ Last(hist).op = "exit")
       => \A p \in Spawned : kills[p] >= 1

====
